---- MODULE Spec2Model ----
(***************************************************************************)
(* Transactional outbox of the payment lambdas:                            *)
(*   - payment-webhook-handler  (src/unnamed/part_000)                     *)
(*   - outbox-processor         (src/unnamed/part_001)                     *)
(*   - outbox-cleanup           (src/aws/lambda/outbox-cleanup/index.ts)   *)
(* The relational store is the pair (payments, outbox); the broker is      *)
(* observed through the history variable sent.                             *)
(***************************************************************************)
EXTENDS Integers, Sequences, FiniteSets, TLC

\* ------------------------------------------------------------------ bounds
MaxEntries == 2      \* outbox ids ever allocated
MaxTime == 8         \* last value of the clock (days)
TickDays == 8        \* days between two observations of the clock
MaxSent == 2         \* successful sends counted per entry (the count saturates)
NumPayments == 1     \* Payment rows created by the order flow
MaxOverflow == 2     \* rows a queued table has beyond a size of interest
MaxAttempts == 6     \* send attempts whose messages are recorded
MaxLen == 4          \* characters of an app_trans_id
MaxRecords == 2      \* records on the queue of a consumer
MaxProcessed == 2    \* completed processRecord calls counted per record (the count saturates)

\* ------------------------------------------------------- program constants
BATCH_SIZE == 100
MAX_RETRIES == 5
LastErrorMax == 500    \* substring(0, 500) of the catch block
RETENTION_DAYS == 7
RelayConcurrency == 1

NoTime == 0 - 1      \* a null timestamp column
\* A null lastError column; a stored message is never the empty string
NoError == <<>>

PaymentIds == 1..NumPayments
Relays == 1..RelayConcurrency
\* ... and one invocation more than the reserved concurrency admits
Invocations == 1..(RelayConcurrency + 1)
Ids == 1..MaxEntries

\* ---------------------------------------------------------------- strings
\* A string is a sequence of one-character strings.
Str(p) == IF p = 1 THEN <<"A">> ELSE <<"B">>
OrderCodeOf(p) == Str(p)

RECURSIVE SplitAt(_, _)
\* s.split('_'): the list of segments of s between underscores
SplitAt(s, acc) ==
    IF s = <<>> THEN <<acc>>
    ELSE IF Head(s) = "_" THEN <<acc>> \o SplitAt(Tail(s), <<>>)
    ELSE SplitAt(Tail(s), Append(acc, Head(s)))

Split(s) == SplitAt(s, <<>>)

\* dataJson.app_trans_id?.split('_')[1] || dataJson.app_trans_id
\* (an absent or empty result is the empty string, which is falsy)
ExtractOrderCode(hasId, id) ==
    IF ~hasId THEN <<>>
    ELSE LET parts == Split(id)
         IN IF Len(parts) >= 2 /\ parts[2] # <<>> THEN parts[2] ELSE id

\* ----------------------------------------------------------------- HMAC
ZALOPAY_KEY2 == "key2"
PAYOS_CHECKSUM_KEY == "checksumKey"
\* crypto.createHmac('sha256', key).update(msg).digest('hex'), collision free
Hmac(key, msg) == <<key, msg>>

\* ------------------------------------------------------ PayOS canonical form
KeyRank(k) == CASE k = "amount" -> 1 [] k = "code" -> 2 [] k = "orderCode" -> 3

RECURSIVE Insert(_, _)
Insert(pair, sorted) ==
    IF sorted = <<>> THEN <<pair>>
    ELSE IF KeyRank(pair[1]) <= KeyRank(Head(sorted)[1]) THEN <<pair>> \o sorted
    ELSE <<Head(sorted)>> \o Insert(pair, Tail(sorted))

RECURSIVE SortPairs(_)
SortPairs(doc) == IF doc = <<>> THEN <<>> ELSE Insert(Head(doc), SortPairs(Tail(doc)))

\* (mutant) the keys are joined in the order of the document
CanonicalAsGiven(doc) == doc

\* Object.keys(data).sort().map(key => `${key}=${data[key]}`).join('&')
Canonical(doc) == SortPairs(doc)

HasKey(doc, k) == \E i \in 1..Len(doc) : doc[i][1] = k
Get(doc, k) == doc[CHOOSE i \in 1..Len(doc) : doc[i][1] = k][2]

\* --------------------------------------------------------------- callbacks
\* path.includes(...) on the routes the webhook is driven with
IncludesZalo(path) == path \in {"zalopay", "zalopay-payos"}
IncludesPayos(path) == path \in {"payos", "zalopay-payos"}

\* A body JSON.parse rejects
Unparsable == [kind |-> "unparsable"]

\* The callbacks the webhook is driven with: one of each kind
ZaloOk(s) == [kind |-> "zalo", hasData |-> TRUE, data |-> [hasId |-> TRUE, id |-> s],
              hasMac |-> TRUE, mac |-> Hmac(ZALOPAY_KEY2, [hasId |-> TRUE, id |-> s])]
PayosOk(d) == [kind |-> "payos", hasData |-> TRUE, data |-> d, hasMac |-> TRUE,
               mac |-> Hmac(PAYOS_CHECKSUM_KEY, Canonical(d))]
Callbacks ==
    { <<"zalopay", ZaloOk(<<"p", "_">> \o Str(p))>> : p \in PaymentIds }
    \cup { <<"payos", PayosOk(<<<<"orderCode", Str(p)>>, <<"code", c>>, <<"amount", "10">>>>)>> :
             p \in PaymentIds, c \in {"00", "01"} }
    \cup { <<"zalopay", ZaloOk(<<"p", "_", "Z">>)>>,
           <<"zalopay", [ZaloOk(<<"p", "_", "A">>) EXCEPT !.mac = Hmac("forged", @[2])]>>,
           <<"payos", [PayosOk(<<<<"code", "00">>, <<"orderCode", <<"A">>>>>>) EXCEPT !.hasMac = FALSE]>>,
           <<"payos", [PayosOk(<<<<"code", "00">>, <<"orderCode", <<"A">>>>>>) EXCEPT !.mac = Hmac("forged", @[2])]>>,
           <<"zalopay", [ZaloOk(<<>>) EXCEPT !.data = [hasId |-> FALSE, id |-> <<>>],
                                             !.mac = Hmac(ZALOPAY_KEY2, [hasId |-> FALSE, id |-> <<>>])]>>,
           <<"payos", PayosOk(<<<<"code", "00">>, <<"amount", "10">>>>)>>,
           <<"other", ZaloOk(<<"p", "_", "A">>)>>,
           <<"other", Unparsable>>,
           <<"zalopay", Unparsable>> }

\* ---------------------------------------------------------------- verifier
NoOrderCode == <<>>

verifyZaloPayCallback(body) ==
    IF body.kind # "zalo" \/ ~body.hasData \/ ~body.hasMac
    THEN [orderCode |-> NoOrderCode, success |-> FALSE, response |-> "return_code:-1"]
    ELSE IF body.mac # Hmac(ZALOPAY_KEY2, body.data)
    THEN [orderCode |-> NoOrderCode, success |-> FALSE, response |-> "return_code:-1"]
    ELSE [orderCode |-> ExtractOrderCode(body.data.hasId, body.data.id),
          success |-> TRUE, response |-> "return_code:1"]

verifyPayOSCallback(body) ==
    IF body.kind # "payos" \/ ~body.hasData \/ ~body.hasMac
    THEN [orderCode |-> NoOrderCode, success |-> FALSE, response |-> "error:Invalid payload"]
    ELSE IF body.mac # Hmac(PAYOS_CHECKSUM_KEY, Canonical(body.data))
    THEN [orderCode |-> NoOrderCode, success |-> FALSE, response |-> "error:Invalid signature"]
    ELSE [orderCode |-> IF HasKey(body.data, "orderCode")
                        THEN Get(body.data, "orderCode") ELSE NoOrderCode,
          success |-> HasKey(body.data, "code") /\ Get(body.data, "code") = "00",
          response |-> "success:true"]

verifyAndParseCallback(provider, body) ==
    IF provider = "zalopay" THEN verifyZaloPayCallback(body)
    ELSE verifyPayOSCallback(body)


\* =================================================================== state
VARIABLES
    now,        \* the wall clock, in days
    payments,   \* Payment table: id -> row
    outbox,     \* Outbox table: a set of rows
    nextId,     \* next outbox id the store hands out
    relay,      \* outbox-processor invocations: position, producer, batch
    sent,       \* history: successful broker sends per outbox id
    updates,    \* history: committed intake updates per payment
    inserts,    \* history: committed intake outbox inserts per payment
    out,        \* what the last step returned to its caller, where recorded
    attempts,   \* history: the messages of the send attempts, where recorded
    sqs         \* email-sender and pdf-generator: queue, invocation, history

vars == <<now, payments, outbox, nextId, relay, sent, updates, inserts, out, attempts, sqs>>

storeVars == <<payments, outbox, nextId, updates, inserts>>

TOPIC_MAPPING == [PAYMENT_COMPLETED |-> "payment.completed", PAYMENT_FAILED |-> "payment.failed"]
\* (mutant) every event type is taken to have a topic
HasTopicAny(eventType) == TRUE

HasTopic(eventType) == eventType \in DOMAIN TOPIC_MAPPING

\* A row another writer of the shared outbox table left there: its event
\* type is not one the relay maps to a topic.
ForeignEntry ==
    [id |-> 1, aggregateId |-> 0, aggregateType |-> "Order", eventType |-> "ORDER_CREATED",
     payload |-> [payment_id |-> 0, order_code |-> <<>>, at |-> 0],
     published |-> FALSE, publishedAt |-> NoTime, retryCount |-> 0,
     lastError |-> NoError, createdAt |-> 0]

IdleRelay == [pc |-> "idle", producer |-> "null", batch |-> {}]

\* ----------------------------------------------------------------- replies
\* The replies are recorded in out only in the behaviours that start with
\* NoReply in it; with Unobserved in it, out stays as it is.
Unobserved == [kind |-> "off"]
NoReply == [kind |-> "none"]
Record(reply) == IF out.kind = "off" THEN out ELSE reply

\* JSON.stringify(value)
Stringify(value) == <<"json", value>>

HttpReply(request, statusCode, body) ==
    [kind |-> "http", request |-> request, statusCode |-> statusCode, body |-> Stringify(body)]

\* handler, catch block
ErrorReply(request) == HttpReply(request, 500, "error:Internal server error")

\* handler, no provider in the path
UnknownProviderReply(request) == HttpReply(request, 400, "error:Unknown payment provider")

\* (mutant) the acknowledgement carries an error of the handler's own
AckReplyRewritten(request, response) == HttpReply(request, 200, "error:Callback rejected")

\* handler: what handleCallback returned goes out under status 200
AckReply(request, response) == HttpReply(request, 200, response)

\* outbox-processor handler: a rejected promise, a deadline, or a return
\* after Promise.allSettled with the two counts it logs
\* (mutant) the handler swallows the error and returns an empty result
RelaySwallows == [kind |-> "relay", result |-> "returned", succeeded |-> 0, failed |-> 0]

RelayThrows == [kind |-> "relay", result |-> "thrown"]
RelayCutOff == [kind |-> "relay", result |-> "timeout"]

\* (mutant) Promise.all in place of Promise.allSettled: one rejection throws
BatchReplyAll(batch) ==
    IF \E t \in batch : t.stage = "rejected"
    THEN [kind |-> "relay", result |-> "thrown"]
    ELSE [kind |-> "relay", result |-> "returned",
          succeeded |-> Cardinality(batch), failed |-> 0]

BatchReply(batch) ==
    [kind |-> "relay", result |-> "returned",
     succeeded |-> Cardinality({ t \in batch : t.stage = "fulfilled" }),
     failed |-> Cardinality({ t \in batch : t.stage = "rejected" })]

StoreInit ==
    /\ now = 0
    /\ payments = [p \in PaymentIds |->
           [id |-> p, orderCode |-> OrderCodeOf(p), status |-> "PENDING",
            completedAt |-> NoTime, failedAt |-> NoTime]]
    /\ \/ outbox = {} /\ nextId = 1
       \/ outbox = {ForeignEntry} /\ nextId = 2
    /\ relay = [r \in Invocations |-> IdleRelay]
    /\ sent = [i \in Ids |-> 0]
    /\ updates = [p \in PaymentIds |-> 0]
    /\ inserts = [p \in PaymentIds |-> 0]

\* The send attempts: not recorded, and recorded from the first one on
Untracked == [on |-> FALSE, log |-> <<>>]

Tracked == [on |-> TRUE, log |-> <<>>]

\* The consumers of the topics, and their queues with nothing on them
Handlers == {"email-sender", "pdf-generator"}

Records == 1..MaxRecords

Consumer(queue) ==
    [pc |-> "idle", queue |-> queue, batch |-> {}, done |-> [n \in Records |-> 0]]

Drained == [h \in Handlers |-> Consumer({})]

Init == StoreInit /\ out = Unobserved /\ attempts = Untracked /\ sqs = Drained

\* The same start, with the replies recorded
InitObserved == StoreInit /\ out = NoReply /\ attempts = Untracked /\ sqs = Drained

\* The same start, with the send attempts recorded
InitTracked == StoreInit /\ out = Unobserved /\ attempts = Tracked /\ sqs = Drained

Tick ==
    /\ now + TickDays <= MaxTime
    /\ now' = now + TickDays
    /\ UNCHANGED <<storeVars, relay, sent, attempts, sqs>>
    /\ out' = Record(NoReply)

\* ========================================================== webhook intake
\* The provider the route selects: path.includes('zalopay') is tested first.
ProviderOf(path) ==
    IF IncludesZalo(path) THEN "zalopay"
    ELSE IF IncludesPayos(path) THEN "payos"
    ELSE "unknown"

\* tx.payment.update({ where: { orderCode } }) finds its row by the unique key
RowsOf(orderCode) == { p \in PaymentIds : payments[p].orderCode = orderCode }

\* What handler does with a callback before it opens a transaction.
Route(path, body) ==
    IF body = Unparsable THEN [kind |-> "throw"]
    ELSE IF ProviderOf(path) = "unknown" THEN [kind |-> "unknown-provider"]
    ELSE LET result == verifyAndParseCallback(ProviderOf(path), body)
         IN IF result.orderCode = NoOrderCode
            THEN [kind |-> "ack", response |-> result.response]
            ELSE [kind |-> "tx", orderCode |-> result.orderCode,
                  success |-> result.success, response |-> result.response]

\* Route, tabulated once for the callbacks the webhook is driven with
Routes == [c \in Callbacks |-> Route(c[1], c[2])]
Routed(path, body) == Routes[<<path, body>>]

\* handler: the body does not parse: the catch block answers 500
WebhookParseError(path, body) ==
    /\ Routed(path, body).kind = "throw"
    /\ UNCHANGED <<now, storeVars, relay, sent, attempts, sqs>>
    /\ out' = Record(ErrorReply(<<path, body>>))

\* handler: the route names no provider
WebhookUnknownProvider(path, body) ==
    /\ Routed(path, body).kind = "unknown-provider"
    /\ UNCHANGED <<now, storeVars, relay, sent, attempts, sqs>>
    /\ out' = Record(UnknownProviderReply(<<path, body>>))

\* handleCallback: the verifier resolved no order code
WebhookNoOrderCode(path, body) ==
    /\ Routed(path, body).kind = "ack"
    /\ UNCHANGED <<now, storeVars, relay, sent, attempts, sqs>>
    /\ out' = Record(AckReply(<<path, body>>, Routed(path, body).response))

\* handleSuccessPayment / handleFailedPayment: the update finds no row (or the
\* store refuses the update): the transaction rolls back and handler answers 500
WebhookUpdateThrows(path, body) ==
    /\ Routed(path, body).kind = "tx"
    /\ UNCHANGED <<now, storeVars, relay, sent, attempts, sqs>>
    /\ out' = Record(ErrorReply(<<path, body>>))

\* The Payment row as tx.payment.update writes it
UpdatedPayment(row, success, at) ==
    IF success THEN [row EXCEPT !.status = "COMPLETED", !.completedAt = at]
    ELSE [row EXCEPT !.status = "FAILED", !.failedAt = at]

\* (mutant) the row always announces a completed payment
NewOutboxEntryCompleted(id, payment, success, at, createdAt) ==
    [id |-> id, aggregateId |-> payment.id, aggregateType |-> "Payment",
     eventType |-> "PAYMENT_COMPLETED",
     payload |-> [payment_id |-> payment.id, order_code |-> payment.orderCode, at |-> at],
     published |-> FALSE, publishedAt |-> NoTime, retryCount |-> 0,
     lastError |-> NoError, createdAt |-> createdAt]

\* The row tx.outbox.create inserts
NewOutboxEntry(id, payment, success, at, createdAt) ==
    [id |-> id, aggregateId |-> payment.id, aggregateType |-> "Payment",
     eventType |-> IF success THEN "PAYMENT_COMPLETED" ELSE "PAYMENT_FAILED",
     payload |-> [payment_id |-> payment.id, order_code |-> payment.orderCode, at |-> at],
     published |-> FALSE, publishedAt |-> NoTime, retryCount |-> 0,
     lastError |-> NoError, createdAt |-> createdAt]

\* handleSuccessPayment / handleFailedPayment: `now` is taken, then one
\* transaction runs tx.payment.update and tx.outbox.create and commits: both
\* writes become visible together. handler answers 200.
\* (mutant) the create replaces the entry the aggregate already has
OutboxUpsert(table, row) ==
    { e \in table : e.aggregateId # row.aggregateId } \cup {row}

\* tx.outbox.create({ data })
OutboxCreate(table, row) == table \cup {row}

WebhookCommit(path, body) ==
    /\ Routed(path, body).kind = "tx"
    /\ nextId <= MaxEntries
    /\ \E p \in RowsOf(Routed(path, body).orderCode) :
          LET row == UpdatedPayment(payments[p], Routed(path, body).success, now)
          IN /\ payments' = [payments EXCEPT ![p] = row]
             /\ outbox' = OutboxCreate(outbox,
                    NewOutboxEntry(nextId, row, Routed(path, body).success, now, now))
             /\ nextId' = nextId + 1
             /\ updates' = [updates EXCEPT ![p] = @ + 1]
             /\ inserts' = [inserts EXCEPT ![p] = @ + 1]
    /\ UNCHANGED <<now, relay, sent, attempts, sqs>>
    /\ out' = Record(AckReply(<<path, body>>, Routed(path, body).response))

\* (mutant) the update was issued outside the transaction and stays
NotRolledBack(table, p, success, at) ==
    [table EXCEPT ![p] = UpdatedPayment(table[p], success, at)]

\* The Payment table after a transaction whose update ran and which then
\* did not commit: prisma.$transaction rolls the update back
RolledBack(table, p, success, at) == table

\* tx.payment.update ran, then tx.outbox.create or the commit failed (or the
\* invocation was cut off): the transaction rolls back, handler answers 500.
WebhookAbort(path, body) ==
    /\ Routed(path, body).kind = "tx"
    /\ \E p \in RowsOf(Routed(path, body).orderCode) :
          /\ payments' = RolledBack(payments, p, Routed(path, body).success, now)
          /\ updates' = [updates EXCEPT ![p] = IF payments'[p] = payments[p] THEN @ ELSE @ + 1]
    /\ UNCHANGED <<now, outbox, nextId, inserts, relay, sent, attempts, sqs>>
    /\ out' = Record(ErrorReply(<<path, body>>))

\* ============================================================ outbox relay
Row(id) == CHOOSE e \in outbox : e.id = id
Exists(id) == \E e \in outbox : e.id = id

\* prisma.outbox.update({ where: { id }, data }) on the table
\* (mutant) the update keeps the updated row alone
UpdateRowAlone(table, id, new) == {new}

UpdateRow(table, id, new) == { IF e.id = id THEN new ELSE e : e \in table }

\* (mutant) the select forgets the retry budget
EligibleAnyCount(table) == { e \in table : ~e.published }

\* where: { published: false, retryCount: { lt: MAX_RETRIES } }
Eligible(table) == { e \in table : ~e.published /\ e.retryCount < MAX_RETRIES }

Min(a, b) == IF a <= b THEN a ELSE b

\* The ways the store may order rows among those of equal createdAt
TieBreaks(S) ==
    LET tied == { e.id : e \in { x \in S : \E y \in S : y.id # x.id /\ y.createdAt = x.createdAt } }
    IN { tb \in [tied -> 1..Cardinality(tied)] : \A a, b \in tied : a # b => tb[a] # tb[b] }

\* f comes before e in the order of createdAt, ties broken by tb
Before(f, e, tb, asc) ==
    \/ IF asc THEN f.createdAt < e.createdAt ELSE f.createdAt > e.createdAt
    \/ f.createdAt = e.createdAt /\ f.id # e.id /\ tb[f.id] < tb[e.id]

\* Every row of S with its place in that order
Ranked(S, tb, asc) ==
    { <<1 + Cardinality({ f \in S : Before(f, e, tb, asc) }), e>> : e \in S }

\* The lists of at most k rows of S in the order of createdAt, ascending or
\* descending; rows of equal createdAt come in any order.
Ordered(S, k, asc) ==
    { [i \in 1..Min(k, Cardinality(S)) |-> (CHOOSE p \in ranked : p[1] = i)[2]] :
        ranked \in { Ranked(S, tb, asc) : tb \in TieBreaks(S) } }

\* (mutant) orderBy: { createdAt: 'desc' }
findManyNewest(table) == Ordered(Eligible(table), BATCH_SIZE, FALSE)

\* findMany({ where, orderBy: { createdAt: 'asc' }, take: BATCH_SIZE }): the
\* lists the query can return
findMany(table) == Ordered(Eligible(table), BATCH_SIZE, TRUE)

\* The rows of the batch, as a set: every publishEvent is started at once
BatchChoices(table) ==
    { { rows[i] : i \in 1..Len(rows) } : rows \in findMany(table) }

\* ------------------------------------------------------- caught errors
\* A message of n characters
Chars(n) == [i \in 1..n |-> "x"]

\* A thrown value with a message, and one without (error.message undefined)
ErrorOf(message) == [hasMessage |-> TRUE, message |-> message]

NoMessage == [hasMessage |-> FALSE, message |-> <<>>]

\* The error of a rejected send or of a failed store call
Failure == ErrorOf(<<"e", "r", "r", "o", "r">>)

\* "Unknown error" and "Unknown event type: ..."
UnknownErrorText == <<"U", "n", "k", "n", "o", "w", "n", " ", "e", "r", "r", "o", "r">>

UnknownTypeText == <<"U", "n", "k", "n", "o", "w", "n", " ", "e", "v", "e", "n", "t", " ", "t", "y", "p", "e">>

\* String.prototype.substring(from, to)
Substring(s, from, to) == SubSeq(s, from + 1, Min(to, Len(s)))

\* (mutant) the whole message is stored
lastErrorWhole(error) ==
    IF error.hasMessage /\ error.message # <<>> THEN error.message ELSE UnknownErrorText

\* error.message?.substring(0, 500) || "Unknown error"
lastErrorOf(error) ==
    LET text == IF error.hasMessage THEN Substring(error.message, 0, LastErrorMax)
                ELSE <<>>
    IN  IF text # <<>> THEN text ELSE UnknownErrorText

\* Messages around the limit: none, empty, short, and up to MaxOverflow
\* characters too long
Thrown ==
    {NoMessage} \cup
    { ErrorOf(Chars(n)) : n \in {0, 1} \cup ((LastErrorMax - 1)..(LastErrorMax + MaxOverflow)) }

\* One publishEvent(event) promise of the batch; error is the value its catch
\* block holds
Task(e) == [id |-> e.id, eventType |-> e.eventType, aggregateId |-> e.aggregateId,
            payload |-> e.payload,
            retryCount |-> e.retryCount, stage |-> "start", error |-> NoMessage]

\* const topic = TOPIC_MAPPING[event.eventType]: undefined without a mapping
TopicOf(eventType) ==
    IF eventType \in DOMAIN TOPIC_MAPPING THEN TOPIC_MAPPING[eventType] ELSE "undefined"

\* (mutant) the value is read from the Payment row when the message is built
MessageJoined(t, id) ==
    [topic |-> TopicOf(t.eventType),
     key |-> t.aggregateId,
     value |-> Stringify([payment_id |-> t.aggregateId,
                          order_code |-> payments[t.aggregateId].orderCode,
                          at |-> IF t.eventType = "PAYMENT_COMPLETED"
                                 THEN payments[t.aggregateId].completedAt
                                 ELSE payments[t.aggregateId].failedAt]),
     headers |-> [eventType |-> t.eventType, eventVersion |-> "1.0",
                  source |-> "payment-service", correlationId |-> t.aggregateId,
                  messageId |-> id]]

\* (mutant) the message id is the id of the entry
MessageOfEntry(t, id) ==
    [topic |-> TopicOf(t.eventType),
     key |-> t.aggregateId,
     value |-> Stringify(t.payload),
     headers |-> [eventType |-> t.eventType, eventVersion |-> "1.0",
                  source |-> "payment-service", correlationId |-> t.aggregateId,
                  messageId |-> t.id]]

\* The message of producer.send
Message(t, id) ==
    [topic |-> TopicOf(t.eventType),
     key |-> t.aggregateId,
     value |-> Stringify(t.payload),
     headers |-> [eventType |-> t.eventType, eventVersion |-> "1.0",
                  source |-> "payment-service", correlationId |-> t.aggregateId,
                  messageId |-> id]]

\* What the broker received
Delivered(message) == [kind |-> "send", message |-> message]

SetStage(r, t, stage, error) ==
    [relay EXCEPT ![r].batch = (@ \ {t}) \cup {[t EXCEPT !.stage = stage, !.error = error]}]

\* handler: producer is null: kafka.producer() and connect() succeed; or the
\* producer of an earlier invocation of this process is reused as it is.
RelayStart(r) ==
    /\ relay[r].pc = "idle"
    /\ relay' = [relay EXCEPT ![r].pc = "select",
                              ![r].producer = IF @ = "null" THEN "connected" ELSE @]
    /\ UNCHANGED <<now, storeVars, sent, attempts, sqs>>
    /\ out' = Record(NoReply)

\* handler: producer is null: kafka.producer() is assigned, connect() throws,
\* the handler rethrows.
RelayConnectFail(r) ==
    /\ relay[r].pc = "idle"
    /\ relay[r].producer = "null"
    /\ relay' = [relay EXCEPT ![r].producer = "created"]
    /\ UNCHANGED <<now, storeVars, sent, attempts, sqs>>
    /\ out' = Record(RelayThrows)

\* handler: findMany returns the batch; an empty batch ends the invocation,
\* otherwise every publishEvent promise is started.
RelaySelect(r) ==
    /\ relay[r].pc = "select"
    /\ \E b \in BatchChoices(outbox) :
          /\ relay' = [relay EXCEPT ![r].pc = IF b = {} THEN "idle" ELSE "publish",
                                    ![r].batch = { Task(e) : e \in b }]
          /\ out' = Record(IF b = {} THEN BatchReply({}) ELSE NoReply)
    /\ UNCHANGED <<now, storeVars, sent, attempts, sqs>>

\* handler: findMany throws, the handler rethrows
RelaySelectFail(r) ==
    /\ relay[r].pc = "select"
    /\ relay' = [relay EXCEPT ![r].pc = "idle"]
    /\ UNCHANGED <<now, storeVars, sent, attempts, sqs>>
    /\ out' = Record(RelayThrows)

\* (mutant) the failure path marks the row published as well
FailedRowMarked(e, error) ==
    [e EXCEPT !.retryCount = @ + 1, !.lastError = error, !.published = TRUE]

\* (mutant) the failure path counts the attempt and stores no error
FailedRowSilent(e, error) == [e EXCEPT !.retryCount = @ + 1]

\* (mutant) the failure path forgets to count the attempt
FailedRowUncounted(e, error) == [e EXCEPT !.lastError = error]

\* The row after `retryCount: { increment: 1 }, lastError`
FailedRow(e, error) == [e EXCEPT !.retryCount = @ + 1, !.lastError = error]

\* (mutant) the mark-published update leaves publishedAt out
PublishedRowNoTime(e, t) == [e EXCEPT !.published = TRUE]

\* (mutant) the mark-published update clears the retry counter
PublishedRowReset(e, t) == [e EXCEPT !.published = TRUE, !.publishedAt = t, !.retryCount = 0]

\* The row after `published: true, publishedAt: new Date()`
PublishedRow(e, t) == [e EXCEPT !.published = TRUE, !.publishedAt = t]

\* publishEvent: no topic for the event type: the failure is recorded on the
\* row and the promise fulfils.
RelayUnknownType(r, t) ==
    /\ relay[r].pc = "publish" /\ t \in relay[r].batch
    /\ t.stage = "start" /\ ~HasTopic(t.eventType)
    /\ Exists(t.id)
    /\ outbox' = UpdateRow(outbox, t.id, FailedRow(Row(t.id), UnknownTypeText))
    /\ relay' = SetStage(r, t, "fulfilled", NoMessage)
    /\ UNCHANGED <<now, payments, nextId, updates, inserts, sent, attempts, sqs>>
    /\ out' = Record(NoReply)

\* publishEvent: no topic, and the update throws (store failure, or the row
\* is gone): the promise rejects.
RelayUnknownTypeFail(r, t) ==
    /\ relay[r].pc = "publish" /\ t \in relay[r].batch
    /\ t.stage = "start" /\ ~HasTopic(t.eventType)
    /\ relay' = SetStage(r, t, "rejected", Failure)
    /\ UNCHANGED <<now, storeVars, sent, attempts, sqs>>
    /\ out' = Record(NoReply)

\* randomUUID(): a value that no earlier call returned; the calls so far are
\* those of the log, and the k-th call returns k. Where the attempts are not
\* recorded the id is left at 0.
randomUUID(log) == Len(log) + 1

MessageId == IF attempts.on THEN randomUUID(attempts.log) ELSE 0

\* The message ids recorded stay within MaxAttempts
CanAttempt == attempts.on => Len(attempts.log) < MaxAttempts

Attempted(t, message) ==
    IF attempts.on
    THEN [attempts EXCEPT !.log = Append(@, [entry |-> t.id, message |-> message])]
    ELSE attempts

\* publishEvent: producer.send resolves
RelaySendOk(r, t) ==
    /\ relay[r].pc = "publish" /\ t \in relay[r].batch
    /\ t.stage = "start" /\ HasTopic(t.eventType)
    /\ relay[r].producer = "connected"
    /\ sent' = [sent EXCEPT ![t.id] = Min(@ + 1, MaxSent)]
    /\ CanAttempt
    /\ relay' = SetStage(r, t, "sent", NoMessage)
    /\ attempts' = Attempted(t, Message(t, MessageId))
    /\ UNCHANGED <<now, storeVars, sqs>>
    /\ out' = Record(Delivered(Message(t, MessageId)))

\* publishEvent: producer.send rejects (broker unreachable, or the producer
\* never connected); control passes to the catch block.
RelaySendFail(r, t, error) ==
    /\ relay[r].pc = "publish" /\ t \in relay[r].batch
    /\ t.stage = "start" /\ HasTopic(t.eventType)
    /\ CanAttempt
    /\ relay' = SetStage(r, t, "caught", error)
    /\ attempts' = Attempted(t, Message(t, MessageId))
    /\ UNCHANGED <<now, storeVars, sent, sqs>>
    /\ out' = Record(NoReply)

\* publishEvent: after the send resolved, the row is marked published
RelayMark(r, t) ==
    /\ relay[r].pc = "publish" /\ t \in relay[r].batch
    /\ t.stage = "sent"
    /\ Exists(t.id)
    /\ outbox' = UpdateRow(outbox, t.id, PublishedRow(Row(t.id), now))
    /\ relay' = SetStage(r, t, "fulfilled", NoMessage)
    /\ UNCHANGED <<now, payments, nextId, updates, inserts, sent, attempts, sqs>>
    /\ out' = Record(NoReply)

\* publishEvent: the mark-published update throws (store failure, or the row
\* is gone); control passes to the catch block.
RelayMarkFail(r, t) ==
    /\ relay[r].pc = "publish" /\ t \in relay[r].batch
    /\ t.stage = "sent"
    /\ relay' = SetStage(r, t, "caught", Failure)
    /\ UNCHANGED <<now, storeVars, sent, attempts, sqs>>
    /\ out' = Record(NoReply)

\* publishEvent, catch block: the failure is recorded on the row, the error
\* is rethrown and the promise rejects.
RelayRecordFailure(r, t) ==
    /\ relay[r].pc = "publish" /\ t \in relay[r].batch
    /\ t.stage = "caught"
    /\ Exists(t.id)
    /\ outbox' = UpdateRow(outbox, t.id, FailedRow(Row(t.id), lastErrorOf(t.error)))
    /\ relay' = SetStage(r, t, "rejected", t.error)
    /\ UNCHANGED <<now, payments, nextId, updates, inserts, sent, attempts, sqs>>
    /\ out' = Record(NoReply)

\* publishEvent, catch block: the update of the catch block throws as well
RelayRecordFailureFail(r, t) ==
    /\ relay[r].pc = "publish" /\ t \in relay[r].batch
    /\ t.stage = "caught"
    /\ relay' = SetStage(r, t, "rejected", Failure)
    /\ UNCHANGED <<now, storeVars, sent, attempts, sqs>>
    /\ out' = Record(NoReply)

Settled(t) == t.stage \in {"fulfilled", "rejected"}

\* handler: Promise.allSettled resolves and the handler returns
RelayFinish(r) ==
    /\ relay[r].pc = "publish"
    /\ \A t \in relay[r].batch : Settled(t)
    /\ relay' = [relay EXCEPT ![r].pc = "idle", ![r].batch = {}]
    /\ UNCHANGED <<now, storeVars, sent, attempts, sqs>>
    /\ out' = Record(BatchReply(relay[r].batch))

\* The invocation is cut off (60s deadline, crash): its promises are
\* abandoned where they are and the process, with its producer, is gone.
RelayTimeout(r) ==
    /\ relay[r].pc # "idle"
    /\ relay' = [relay EXCEPT ![r] = IdleRelay]
    /\ UNCHANGED <<now, storeVars, sent, attempts, sqs>>
    /\ out' = Record(RelayCutOff)

\* Between invocations the process is recycled: the next one starts cold.
RelayColdStart(r) ==
    /\ relay[r].pc = "idle"
    /\ relay[r].producer # "null"
    /\ relay' = [relay EXCEPT ![r].producer = "null"]
    /\ UNCHANGED <<now, storeVars, sent, attempts, sqs>>
    /\ out' = Record(NoReply)

\* ======================================================= retention sweeper
\* (mutant) the cutoff lies ahead of the clock
CutoffAhead(t) == t + RETENTION_DAYS

\* cutoffDate.setDate(cutoffDate.getDate() - RETENTION_DAYS)
Cutoff(t) == t - RETENTION_DAYS

\* (mutant) the delete filters on the age of the row, not on its publication
OldCreated(table, t) == { e \in table : e.createdAt < Cutoff(t) }

\* deleteMany({ where: { published: true, publishedAt: { lt: cutoffDate } } })
OldPublished(table, t) == { e \in table : e.published /\ e.publishedAt < Cutoff(t) }

\* (mutant) the monitor reads every unpublished row
StuckAnyCount(table) == { e \in table : ~e.published }

\* findMany({ where: { published: false, retryCount: { gte: MAX_RETRIES } } })
Stuck(table) == { e \in table : ~e.published /\ e.retryCount >= MAX_RETRIES }

\* (mutant) the delete takes every published row
AfterDeleteAllPublished(table, t) == { e \in table : ~e.published }

\* The table after deleteOldPublishedEvents ran at time t
AfterDelete(table, t) == table \ OldPublished(table, t)

NoCount == 0 - 1     \* deletedCount was never assigned

\* result.count of the deleteMany
DeletedCount(table, t) == Cardinality(OldPublished(table, t))

\* (mutant) a failure of the metrics call is rethrown
SweepReplyMetricsFatal(table, t, metricsOk) ==
    [kind |-> "sweep", result |-> IF metricsOk THEN "returned" ELSE "thrown",
     deleted |-> DeletedCount(table, t), stuck |-> Stuck(AfterDelete(table, t)),
     metrics |-> IF metricsOk
                 THEN <<"EventsDeleted", DeletedCount(table, t), "FailedEvents",
                        Cardinality(Stuck(AfterDelete(table, t)))>>
                 ELSE <<"error">>]

\* outbox-cleanup handler returns: the count it logged, the rows
\* monitorFailedEvents read after the delete, and what became of the metrics
SweepReply(table, t, metricsOk) ==
    [kind |-> "sweep", result |-> "returned", deleted |-> DeletedCount(table, t),
     stuck |-> Stuck(AfterDelete(table, t)),
     metrics |-> IF metricsOk
                 THEN <<"EventsDeleted", DeletedCount(table, t), "FailedEvents",
                        Cardinality(Stuck(AfterDelete(table, t)))>>
                 ELSE <<"error">>]

\* (mutant) the metrics are sent before the handler rethrows
SweepThrowsAfterMetrics(deleted) ==
    [kind |-> "sweep", result |-> "thrown", deleted |-> deleted, stuck |-> {},
     metrics |-> <<"EventsDeleted", deleted, "FailedEvents", 0>>]

\* outbox-cleanup handler rethrows, after deleted rows were counted or before
SweepThrows(deleted) ==
    [kind |-> "sweep", result |-> "thrown", deleted |-> deleted, stuck |-> {}, metrics |-> <<>>]

\* handler: deleteOldPublishedEvents, monitorFailedEvents and publishMetrics
\* run and the handler returns; a failure to send the metrics is swallowed.
SweepReturns(metricsOk) ==
    /\ outbox' = AfterDelete(outbox, now)
    /\ UNCHANGED <<now, payments, nextId, updates, inserts, relay, sent, attempts, sqs>>
    /\ out' = Record(SweepReply(outbox, now, metricsOk))

\* handler: deleteMany throws, the handler rethrows
SweepDeleteThrows ==
    /\ UNCHANGED <<now, storeVars, relay, sent, attempts, sqs>>
    /\ out' = Record(SweepThrows(NoCount))

\* handler: the delete is done, then the findMany of monitorFailedEvents
\* throws and the handler rethrows
SweepMonitorThrows ==
    /\ outbox' = AfterDelete(outbox, now)
    /\ UNCHANGED <<now, payments, nextId, updates, inserts, relay, sent, attempts, sqs>>
    /\ out' = Record(SweepThrows(DeletedCount(outbox, now)))

\* ==================================================================== spec
Webhook ==
    \E c \in Callbacks :
        \/ WebhookParseError(c[1], c[2])
        \/ WebhookUnknownProvider(c[1], c[2])
        \/ WebhookNoOrderCode(c[1], c[2])
        \/ WebhookUpdateThrows(c[1], c[2])
        \/ WebhookCommit(c[1], c[2])
        \/ WebhookAbort(c[1], c[2])

RelayStep ==
    \E r \in Relays :
        \/ RelayStart(r)
        \/ RelayConnectFail(r)
        \/ RelaySelect(r)
        \/ RelaySelectFail(r)
        \/ \E t \in relay[r].batch :
              \/ RelayUnknownType(r, t)
              \/ RelayUnknownTypeFail(r, t)
              \/ RelaySendOk(r, t)
              \/ RelaySendFail(r, t, Failure)
              \/ RelayMark(r, t)
              \/ RelayMarkFail(r, t)
              \/ RelayRecordFailure(r, t)
              \/ RelayRecordFailureFail(r, t)
        \/ RelayFinish(r)
        \/ RelayTimeout(r)
        \/ RelayColdStart(r)

Sweep ==
    \/ \E metricsOk \in BOOLEAN : SweepReturns(metricsOk)
    \/ SweepDeleteThrows
    \/ SweepMonitorThrows

Next == Tick \/ Webhook \/ RelayStep \/ Sweep

Spec == Init /\ [][Next]_vars

\* ---------------------------------------------------- intake, replies seen
\* The webhook alone, every reply recorded
IntakeNext == Tick \/ Webhook

IntakeSpec == InitObserved /\ [][IntakeNext]_vars



\* ------------------------------------------------------- liveness of relay
\* The relay with the store answering and no invocation cut off: the broker
\* and the connect may still fail.
RelayRuns(r) ==
    \/ RelayStart(r)
    \/ RelaySelect(r)
    \/ \E t \in relay[r].batch :
          \/ RelayUnknownType(r, t)
          \/ RelaySendOk(r, t)
          \/ RelaySendFail(r, t, Failure)
          \/ RelayMark(r, t)
          \/ RelayRecordFailure(r, t)
    \/ RelayFinish(r)

LiveNext ==
    \/ Tick
    \/ \E c \in Callbacks : WebhookCommit(c[1], c[2])
    \/ \E r \in Relays : RelayRuns(r) \/ RelayConnectFail(r) \/ RelayColdStart(r)
    \/ \E metricsOk \in BOOLEAN : SweepReturns(metricsOk)

\* EventBridge starts a pass every minute and the event loop runs every
\* started promise to its end.
LiveSpec == Init /\ [][LiveNext]_vars /\ \A r \in Relays : WF_vars(RelayRuns(r))

\* ------------------------------------------- relay and sweeper, replies seen
\* Committed intake, the relay with the store answering and the sweeper,
\* every reply recorded
OutboxNext ==
    \/ Tick
    \/ \E c \in Callbacks : WebhookCommit(c[1], c[2])
    \/ \E r \in Relays : RelayRuns(r)
    \/ Sweep

OutboxSpec == InitObserved /\ [][OutboxNext]_vars

\* ------------------------------------------------ relay passes, replies seen
\* Committed intake and relay invocations that run to their end, with every
\* failure a publishEvent promise can meet, every reply recorded
PassNext ==
    \/ \E c \in Callbacks : WebhookCommit(c[1], c[2])
    \/ \E r \in Relays :
          \/ RelayRuns(r)
          \/ \E t \in relay[r].batch :
                \/ RelayUnknownTypeFail(r, t)
                \/ RelayMarkFail(r, t)
                \/ RelayRecordFailureFail(r, t)

PassSpec == InitObserved /\ [][PassNext]_vars

\* ------------------------------------------------------- the batch select
\* Tables as the intake and earlier passes leave them, up to more rows than
\* one batch takes, and the findMany of the handler applied to each.
QueuedRow(i, created, published, retry) ==
    [id |-> i, aggregateId |-> i, aggregateType |-> "Payment",
     eventType |-> "PAYMENT_COMPLETED",
     payload |-> [payment_id |-> i, order_code |-> <<"A">>, at |-> created],
     published |-> published, publishedAt |-> IF published THEN created ELSE NoTime,
     retryCount |-> retry, lastError |-> IF retry > 0 THEN Failure.message ELSE NoError,
     createdAt |-> created]

\* Row counts: a few, around one batch, and well beyond one batch
Sizes ==
    (0..MaxOverflow) \cup ((BATCH_SIZE - 1)..(BATCH_SIZE + MaxOverflow))
    \cup { BATCH_SIZE + (BATCH_SIZE \div 2) + k : k \in 0..MaxOverflow }

\* createdAt of row i of n: as the ids go, against them, or as the ids go
\* with the last rows created together
CreatedIn(order, i, n) ==
    CASE order = "asc" -> i
      [] order = "desc" -> n - i
      [] order = "tie" -> IF i < n - MaxOverflow THEN i ELSE n

Shapes == [order : {"asc", "desc", "tie"}, published : BOOLEAN, retried : BOOLEAN]

\* With shape.published every tenth row is published; with shape.retried the
\* rows carry retry counts up to MAX_RETRIES
Queued(n, shape) ==
    { QueuedRow(i, CreatedIn(shape.order, i, n),
                shape.published /\ i % 10 = 0,
                IF ~shape.retried THEN 0
                ELSE IF i % 10 = 5 THEN MAX_RETRIES ELSE i % 3) : i \in 1..n }

SelectInit ==
    /\ \E n \in Sizes : \E shape \in Shapes :
          /\ outbox = Queued(n, shape)
          /\ nextId = n + 1
          /\ now = n
    /\ payments = [p \in PaymentIds |->
           [id |-> p, orderCode |-> OrderCodeOf(p), status |-> "COMPLETED",
            completedAt |-> 0, failedAt |-> NoTime]]
    /\ relay = [r \in Invocations |-> IdleRelay]
    /\ sent = [i \in Ids |-> 0]
    /\ updates = [p \in PaymentIds |-> 1]
    /\ inserts = [p \in PaymentIds |-> 1]
    /\ out = NoReply
    /\ attempts = Untracked
    /\ sqs = Drained

\* handler: the findMany, and the list it returned
RelayQuery ==
    /\ \E rows \in findMany(outbox) : out' = Record([kind |-> "rows", rows |-> rows])
    /\ UNCHANGED <<now, storeVars, relay, sent, attempts, sqs>>

SelectSpec == SelectInit /\ [][RelayQuery]_vars

\* ------------------------------------------------------ overlapping passes
\* Nothing in the handler keeps a second invocation out while one runs: the
\* single concurrency is a setting of the deployment. Here one callback is
\* committed and two invocations run at once, with the store answering.
OverlapNext ==
    \/ \E c \in Callbacks : (\A p \in PaymentIds : inserts[p] = 0) /\ WebhookCommit(c[1], c[2])
    \/ \E r \in Invocations : RelayRuns(r)

OverlapSpec == Init /\ [][OverlapNext]_vars

\* ------------------------------------------- publish attempts, any message
\* Committed intake and relay invocations with the store answering, the send
\* rejecting with every message of Thrown
PublishNext ==
    \/ \E c \in Callbacks : WebhookCommit(c[1], c[2])
    \/ \E r \in Relays :
          \/ RelayStart(r)
          \/ RelaySelect(r)
          \/ \E t \in relay[r].batch :
                \/ RelayUnknownType(r, t)
                \/ RelaySendOk(r, t)
                \/ \E error \in Thrown : RelaySendFail(r, t, error)
                \/ RelayMark(r, t)
                \/ RelayRecordFailure(r, t)
          \/ RelayFinish(r)

PublishSpec == Init /\ [][PublishNext]_vars

\* ------------------------------------------- send attempts, messages kept
\* Committed intake and relay invocations with the store answering, the
\* message of every send attempt recorded
AttemptNext ==
    \/ \E c \in Callbacks : WebhookCommit(c[1], c[2])
    \/ \E r \in Relays : RelayRuns(r)

AttemptSpec == InitTracked /\ [][AttemptNext]_vars

\* --------------------------------------- send attempts, invocations cut off
\* The same, with invocations that the 60 s deadline cuts off
CutOffNext ==
    \/ AttemptNext
    \/ \E r \in Relays : RelayTimeout(r)

CutOffSpec == InitTracked /\ [][CutOffNext]_vars

\* ------------------------------------------------------- the two verifiers
\* Every app_trans_id of up to MaxLen characters over a, b and _
Texts == UNION { [1..n -> {"a", "b", "_"}] : n \in 0..MaxLen }

\* Every ordering of every subset of the fields of a PayOS data document
Fields ==
    { <<"orderCode", <<"A">>>>, <<"code", "00">>, <<"code", "01">>, <<"amount", "10">> }

Orderings(pairs) ==
    { doc \in [1..Cardinality(pairs) -> pairs] :
        \A i, j \in 1..Cardinality(pairs) : i # j => doc[i] # doc[j] }

Documents ==
    UNION { Orderings(pairs) :
              pairs \in { P \in SUBSET Fields :
                            \A x, y \in P : x # y => x[1] # y[1] } }

\* Authentic ZaloPay callbacks, and PayOS callbacks signed over the sorted
\* document or forged
Posted ==
    { <<"zalopay", ZaloOk(s)>> : s \in Texts }
    \cup { <<"payos", [kind |-> "payos", hasData |-> TRUE, data |-> d, hasMac |-> TRUE,
                       mac |-> Hmac(key, SortPairs(d))]>> :
              d \in Documents, key \in {PAYOS_CHECKSUM_KEY, "forged"} }

VerifyInit ==
    /\ StoreInit
    /\ outbox = {}
    /\ attempts = Untracked
    /\ sqs = Drained
    /\ \E c \in Posted : out = [kind |-> "posted", request |-> c]

\* handleCallback: verifyAndParseCallback(provider, body), and its result
Verify ==
    /\ out.kind = "posted"
    /\ out' = [kind |-> "verified", request |-> out.request,
               result |-> verifyAndParseCallback(ProviderOf(out.request[1]), out.request[2])]
    /\ UNCHANGED <<now, storeVars, relay, sent, attempts, sqs>>

VerifySpec == VerifyInit /\ [][Verify]_vars

\* ================================================== the consumers of SQS
\* (mutant) the handler returns although a record was rejected
ConsumerReplyQuiet(h, batch) ==
    [kind |-> "consumer", handler |-> h, result |-> "returned",
     records |-> { t.n : t \in batch }]

\* handler: throws when results holds a rejected entry, returns otherwise
ConsumerReply(h, batch) ==
    [kind |-> "consumer", handler |-> h,
     result |-> IF { t \in batch : t.stage = "rejected" } # {} THEN "thrown" ELSE "returned",
     records |-> { t.n : t \in batch }]

\* handler is invoked with a batch of the records on the queue:
\* event.Records.map((record) => processRecord(record)) starts every one
ConsumerInvoke(h, records) ==
    /\ sqs[h].pc = "idle"
    /\ records # {} /\ records \subseteq sqs[h].queue
    /\ sqs' = [sqs EXCEPT ![h].pc = "running",
                          ![h].batch = { [n |-> n, stage |-> "start"] : n \in records }]
    /\ UNCHANGED <<now, storeVars, relay, sent, attempts>>
    /\ out' = Record(NoReply)

SetRecord(h, t, stage) ==
    [sqs EXCEPT ![h].batch = (@ \ {t}) \cup {[t EXCEPT !.stage = stage]},
                ![h].done[t.n] = IF stage = "fulfilled" THEN Min(@ + 1, MaxProcessed) ELSE @]

\* processRecord resolves: the email is sent or skipped, the PDF is uploaded
ProcessResolves(h, t) ==
    /\ sqs[h].pc = "running" /\ t \in sqs[h].batch /\ t.stage = "start"
    /\ sqs' = SetRecord(h, t, "fulfilled")
    /\ UNCHANGED <<now, storeVars, relay, sent, attempts>>
    /\ out' = Record(NoReply)

\* processRecord rejects: JSON.parse, SES, S3 or the PDF library throws
ProcessRejects(h, t) ==
    /\ sqs[h].pc = "running" /\ t \in sqs[h].batch /\ t.stage = "start"
    /\ sqs' = SetRecord(h, t, "rejected")
    /\ UNCHANGED <<now, storeVars, relay, sent, attempts>>
    /\ out' = Record(NoReply)

\* handler: Promise.allSettled resolves; the handler returns, and the queue
\* drops the batch, or throws, and the queue keeps the whole batch for
\* another delivery
ConsumerFinish(h) ==
    /\ sqs[h].pc = "running"
    /\ \A t \in sqs[h].batch : Settled(t)
    /\ sqs' = [sqs EXCEPT ![h].pc = "idle", ![h].batch = {},
                          ![h].queue = IF ConsumerReply(h, sqs[h].batch).result = "returned"
                                       THEN @ \ { t.n : t \in sqs[h].batch } ELSE @]
    /\ UNCHANGED <<now, storeVars, relay, sent, attempts>>
    /\ out' = Record(ConsumerReply(h, sqs[h].batch))

ConsumerInit ==
    /\ StoreInit
    /\ outbox = {}
    /\ out = NoReply
    /\ attempts = Untracked
    /\ sqs = [h \in Handlers |-> Consumer(Records)]

ConsumerNext ==
    \E h \in Handlers :
        \/ \E records \in SUBSET Records : ConsumerInvoke(h, records)
        \/ \E t \in sqs[h].batch :
              \/ ProcessResolves(h, t)
              \/ ProcessRejects(h, t)
        \/ ConsumerFinish(h)

ConsumerSpec == ConsumerInit /\ [][ConsumerNext]_vars

\* ------------------------------------- relay invocations, replies seen
\* Committed intake and relay invocations, warm or cold, that may fail to
\* connect or to read the batch, every reply recorded
InvokeNext ==
    \/ \E c \in Callbacks : WebhookCommit(c[1], c[2])
    \/ \E r \in Relays :
          \/ RelayRuns(r)
          \/ RelayConnectFail(r)
          \/ RelaySelectFail(r)
          \/ RelayColdStart(r)

InvokeSpec == InitObserved /\ [][InvokeNext]_vars

\* ================================================================== claims
Pending(i) == \E e \in outbox : e.id = i /\ ~e.published /\ e.retryCount < MAX_RETRIES
Published(i) == \E e \in outbox : e.id = i /\ e.published
Exhausted(i) == \E e \in outbox : e.id = i /\ ~e.published /\ e.retryCount = MAX_RETRIES
Accepted(i) == \E r \in Relays : \E t \in relay[r].batch : t.id = i /\ t.stage = "sent"
IntakeRows(p) == { e \in outbox : e.aggregateType = "Payment" /\ e.aggregateId = p }

\* C1: intake is atomic. Every committed intake update of a Payment comes
\* with the outbox insert of the same transaction and the other way round:
\* the two are counted alike, a Payment has left PENDING exactly when an
\* entry was inserted for it, and no entry belongs to a PENDING Payment.
C1_IntakeAtomic ==
    \A p \in PaymentIds :
        /\ updates[p] = inserts[p]
        /\ (payments[p].status # "PENDING") <=> (inserts[p] > 0)
        /\ IntakeRows(p) # {} => payments[p].status # "PENDING"

C1_Witness ==
    \E p \in PaymentIds :
        /\ payments[p].status = "COMPLETED" /\ updates[p] = 1
        /\ \E e \in IntakeRows(p) : e.eventType = "PAYMENT_COMPLETED"

\* C2: replay is idempotent. A Payment has at most one outbox entry of one
\* event type: a repeated callback of the same outcome adds none.
C2_ReplayAddsNoEntry ==
    \A e1, e2 \in outbox :
        (/\ e1.aggregateType = "Payment" /\ e2.aggregateType = "Payment"
         /\ e1.aggregateId = e2.aggregateId
         /\ e1.eventType = e2.eventType) => e1.id = e2.id

\* C3: a Payment status is terminal. Once it is not PENDING no step changes it.
C3_StatusTerminal ==
    [][\A p \in PaymentIds :
          payments[p].status # "PENDING" => payments'[p].status = payments[p].status]_vars

\* C4: no entry is marked delivered without delivery. Every published entry
\* has had a broker send resolve, whatever was cut off in between.
C4_PublishedWasSent ==
    \A e \in outbox : e.published => sent[e.id] >= 1

C4_Witness ==
    /\ \E e \in outbox : e.published /\ sent[e.id] >= 1
    /\ \E e \in outbox : ~e.published /\ sent[e.id] = 0 /\ e.retryCount > 0

C6_AggregateOrder ==
    \A e1, e2 \in outbox :
        (/\ e1.aggregateId = e2.aggregateId
         /\ e1.createdAt < e2.createdAt
         /\ sent[e2.id] >= 1) => sent[e1.id] >= 1

\* C7: exactly-once delivery. No entry is sent successfully more than once.
C7_SentAtMostOnce ==
    \A i \in Ids : sent[i] <= 1

\* C8: an unpublished entry is never deleted. A row leaves the table only in
\* a step that changes nothing but the table (a sweep), and only a row that
\* is published with publishedAt before the cutoff.
C8_OnlyOldPublishedDeleted ==
    [][\A e \in outbox :
          (\A f \in outbox' : f.id # e.id) =>
              /\ e.published
              /\ e.publishedAt # NoTime
              /\ e.publishedAt < now - RETENTION_DAYS
              /\ UNCHANGED <<now, payments, nextId, relay, sent>>]_vars

C8_Witness ==
    /\ \E i \in Ids : i < nextId /\ \A e \in outbox : e.id # i
    /\ \E e \in outbox : ~e.published /\ e.createdAt < now - RETENTION_DAYS

\* C9: a published entry has publishedAt. Entries start unpublished with no
\* publishedAt, and a step that changes either field of a row sets both:
\* published to true and publishedAt to the time of the step.
C9_PublishedHasTime ==
    /\ [](\A e \in outbox : e.published => e.publishedAt # NoTime)
    /\ [][\A f \in outbox' :
             /\ (\A e \in outbox : e.id # f.id) => ~f.published /\ f.publishedAt = NoTime
             /\ \A e \in outbox :
                   (e.id = f.id /\ <<e.published, e.publishedAt>> # <<f.published, f.publishedAt>>)
                       => ~e.published /\ f.published /\ f.publishedAt = now]_vars

C9_Witness ==
    \E e \in outbox : e.published /\ e.publishedAt > e.createdAt

\* C10: retryCount is monotone. No step lowers the retryCount of a row, and
\* a new row starts at 0.
C10_RetryCountMonotone ==
    [][\A f \in outbox' :
          /\ (\A e \in outbox : e.id # f.id) => f.retryCount = 0
          /\ \A e \in outbox : e.id = f.id => f.retryCount >= e.retryCount]_vars

C10_Witness ==
    \E e \in outbox : e.published /\ e.retryCount >= 2

\* What the verifier makes of a request that parses and names a provider
Parses(c) == c[2] # Unparsable
NamesProvider(c) == ProviderOf(c[1]) # "unknown"
Verdict(c) == verifyAndParseCallback(ProviderOf(c[1]), c[2])

\* C12: a callback without order code writes nothing. When the verifier
\* returns no order code (field missing, MAC or signature mismatch, authentic
\* body without order code), the step leaves the Payment and the outbox
\* table as they are and answers 200 with the verifier's response as body.
C12_NoOrderCodeNoWrite ==
    [][\A c \in Callbacks :
          (/\ out'.kind = "http" /\ out'.request = c
           /\ Parses(c) /\ NamesProvider(c)
           /\ Verdict(c).orderCode = NoOrderCode)
          => /\ payments' = payments /\ outbox' = outbox /\ nextId' = nextId
             /\ out'.statusCode = 200
             /\ out'.body = Stringify(Verdict(c).response)]_vars

C12_Witness ==
    /\ out.kind = "http" /\ out.statusCode = 200
    /\ Parses(out.request) /\ NamesProvider(out.request)
    /\ Verdict(out.request).orderCode = NoOrderCode
    /\ Verdict(out.request).success
    /\ outbox # {}

\* C13: an unknown provider is a client error. Every callback whose path names
\* neither provider is answered 400 with an error body and writes nothing.
C13_UnknownProviderRejected ==
    [][\A c \in Callbacks :
          (out'.kind = "http" /\ out'.request = c /\ ~NamesProvider(c))
          => /\ out'.statusCode = 400
             /\ out'.body = Stringify("error:Unknown payment provider")
             /\ payments' = payments /\ outbox' = outbox]_vars

\* C14: a stuck entry is terminal for the relay. Once an entry is unpublished
\* with retryCount >= MAX_RETRIES, no publishEvent promise is pending on it,
\* no batch selected from then on holds it, no step sends or changes or
\* deletes it, and every report a sweeper run returns lists it.
C14_StuckIsTerminal ==
    /\ [](\A e \in Stuck(outbox) : \A r \in Relays : \A t \in relay[r].batch :
              t.id = e.id => Settled(t))
    /\ [][\A e \in Stuck(outbox) :
             /\ e \in outbox'
             /\ sent'[e.id] = sent[e.id]
             /\ \A r \in Relays : relay[r].pc = "select" =>
                    \A t \in relay'[r].batch : t.id # e.id
             /\ (out'.kind = "sweep" /\ out'.result = "returned") => e \in out'.stuck]_vars

C14_Witness ==
    /\ out.kind = "sweep" /\ out.result = "returned"
    /\ \E e \in out.stuck : HasTopic(e.eventType) /\ e \in outbox
    /\ \E r \in Relays :
          /\ relay[r].pc = "publish"
          /\ \A t \in relay[r].batch : \A e \in out.stuck : t.id # e.id

\* A step in which deleteOldPublishedEvents returned
Swept == out'.kind = "sweep" /\ out'.deleted # NoCount
\* A step in which the sweeper handler returned
SweepReturned == out'.kind = "sweep" /\ out'.result = "returned"

\* C16: a sweep deletes exactly the old published rows. The table after the
\* delete is the table before without the rows that are published with
\* publishedAt < now - RETENTION_DAYS, and the count returned is their number.
C16_SweepDeletesExactly ==
    [][Swept =>
          /\ outbox' = { e \in outbox : ~(e.published /\ e.publishedAt < now - RETENTION_DAYS) }
          /\ out'.deleted = Cardinality(outbox) - Cardinality(outbox')]_vars

C16_Witness ==
    /\ out.kind = "sweep" /\ out.deleted = 1
    /\ \E e \in outbox : e.published
    /\ \E i \in Ids : i < nextId /\ \A e \in outbox : e.id # i

\* C17: the stuck report is exact and read-only. The report of a sweeper run
\* is the set of rows with published=false and retryCount >= MAX_RETRIES, and
\* each of them is in the table after the run as it was before.
C17_StuckReportExact ==
    [][SweepReturned =>
          /\ out'.stuck = { e \in outbox : ~e.published /\ e.retryCount >= MAX_RETRIES }
          /\ \A e \in out'.stuck : e \in outbox']_vars

C17_Witness ==
    /\ out.kind = "sweep" /\ out.result = "returned"
    /\ out.stuck # {} /\ out.stuck \subseteq outbox
    /\ \E e \in outbox : ~e.published /\ e.retryCount > 0 /\ e \notin out.stuck

\* C19: a metrics failure does not fail the sweep. When the metrics call
\* throws, the handler returns and the rows the delete took are gone.
C19_MetricsFailureIsolated ==
    [][(out'.kind = "sweep" /\ out'.metrics = <<"error">>) =>
          /\ out'.result = "returned"
          /\ \A e \in outbox :
                (e.published /\ e.publishedAt < now - RETENTION_DAYS) => e \notin outbox'
          /\ out'.deleted = Cardinality(outbox) - Cardinality(outbox')]_vars

C19_Witness ==
    /\ out.kind = "sweep" /\ out.metrics = <<"error">> /\ out.result = "returned"
    /\ out.deleted >= 1

\* C20: retention round trip. A sweep keeps every published row whose
\* publishedAt + RETENTION_DAYS is not yet past and deletes every one for
\* which it is past; a sweep that follows a sweep deletes no row.
C20_RetentionRoundTrip ==
    [][Swept =>
          /\ \A e \in outbox :
                (e.published /\ now <= e.publishedAt + RETENTION_DAYS) => e \in outbox'
          /\ \A e \in outbox :
                (e.published /\ now > e.publishedAt + RETENTION_DAYS) => e \notin outbox'
          /\ (out.kind = "sweep" /\ out.deleted # NoCount) => out'.deleted = 0]_vars

C20_Witness ==
    /\ out.kind = "sweep" /\ out.deleted = 0
    /\ \E e \in outbox : e.published /\ e.publishedAt = now
    /\ \E i \in Ids : i < nextId /\ \A e \in outbox : e.id # i

\* The promise of r for the row i is in the state stage
TaskAt(r, i, stages) == \E t \in relay[r].batch : t.id = i /\ t.stage \in stages

\* C18: failures are isolated per entry. Whatever entries of a batch fail, a
\* promise that fulfils on a mapped event type has its row published, a step
\* changes the row of its own promise only and records an error only where
\* the publish failed, and the invocation returns with the counts of
\* fulfilled and rejected promises instead of throwing.
C18_FailureIsolation ==
    /\ [](\A r \in Relays : \A t \in relay[r].batch :
              (t.stage = "fulfilled" /\ HasTopic(t.eventType)) =>
                  \E e \in outbox : e.id = t.id /\ e.published)
    /\ [][\A r \in Relays :
             /\ \A e \in outbox : e \notin outbox' =>
                    /\ TaskAt(r, e.id, {"start", "sent", "caught"})
                    /\ \A u \in outbox : u.id # e.id => u \in outbox'
                    /\ \A f \in outbox' : (f.id = e.id /\ f.lastError # e.lastError) =>
                           /\ ~f.published
                           /\ \/ TaskAt(r, e.id, {"caught"})
                              \/ TaskAt(r, e.id, {"start"}) /\ ~HasTopic(e.eventType)
             /\ (relay[r].pc = "publish" /\ relay'[r].pc = "idle") =>
                    /\ out'.kind = "relay" /\ out'.result = "returned"
                    /\ out'.succeeded = Cardinality({ t \in relay[r].batch : t.stage = "fulfilled" })
                    /\ out'.failed = Cardinality({ t \in relay[r].batch : t.stage = "rejected" })]_vars

C18_Witness ==
    /\ out.kind = "relay" /\ out.result = "returned"
    /\ out.succeeded = 1 /\ out.failed = 1
    /\ \E e \in outbox : e.published /\ e.lastError = NoError /\ e.retryCount = 0
    /\ \E e \in outbox : ~e.published /\ e.lastError = Failure.message /\ HasTopic(e.eventType)

\* C11: a published entry is frozen. Once a row is published, every step
\* leaves it as it is, the steps of an overlapping relay invocation too,
\* unless the step is a sweep that deletes it.
C11_PublishedFrozen ==
    [][\A e \in outbox : e.published =>
          \/ e \in outbox'
          \/ /\ \A f \in outbox' : f.id # e.id
             /\ UNCHANGED <<payments, nextId, relay, sent>>]_vars

\* C15: overlapping passes are safe. A step that a publishEvent promise
\* takes on a row another invocation has already published changes nothing
\* in the outbox table: the race costs a duplicate message and no more.
C15_RaceChangesNothing ==
    [][\A r \in Invocations : \A t \in relay[r].batch :
          (t \notin relay'[r].batch /\ \E e \in outbox : e.id = t.id /\ e.published)
              => outbox' = outbox]_vars

\* The Payment rows a request resolves to
Matched(c) == { p \in PaymentIds : payments[p].orderCode = Verdict(c).orderCode }

\* C21: effect of an accepted callback. When an authentic callback with an
\* order code of a PENDING Payment is answered 200, the Payment is COMPLETED
\* if the verifier reported success and FAILED if not, and the outbox has
\* exactly one row more: for that payment, of type Payment, unpublished,
\* retryCount 0, its event type the one that goes with the status written.
C21_AcceptedCallbackEffect ==
    [][\A c \in Callbacks : \A p \in PaymentIds :
          (/\ out'.kind = "http" /\ out'.request = c /\ out'.statusCode = 200
           /\ Parses(c) /\ NamesProvider(c)
           /\ p \in Matched(c) /\ payments[p].status = "PENDING")
          => /\ payments'[p].status = IF Verdict(c).success THEN "COMPLETED" ELSE "FAILED"
             /\ outbox \subseteq outbox'
             /\ Cardinality(outbox' \ outbox) = 1
             /\ \A e \in outbox' \ outbox :
                   /\ e.aggregateId = payments[p].id /\ e.aggregateType = "Payment"
                   /\ ~e.published /\ e.retryCount = 0
                   /\ e.eventType = IF Verdict(c).success
                                     THEN "PAYMENT_COMPLETED" ELSE "PAYMENT_FAILED"
                   /\ (e.eventType = "PAYMENT_COMPLETED") <=> (payments'[p].status = "COMPLETED")
                   /\ (e.eventType = "PAYMENT_FAILED") <=> (payments'[p].status = "FAILED")]_vars

C21_Witness ==
    /\ out.kind = "http" /\ out.statusCode = 200
    /\ \E p \in PaymentIds :
          /\ payments[p].status = "FAILED" /\ updates[p] = 1
          /\ \E e \in IntakeRows(p) : e.eventType = "PAYMENT_FAILED" /\ ~e.published

\* C22: terminal timestamps agree with the status. In every state completedAt
\* is set exactly when the status is COMPLETED, completedAt and failedAt are
\* not both set, and no step writes a timestamp that is already set.
C22_TimestampsConsistent ==
    /\ [](\A p \in PaymentIds :
              /\ (payments[p].completedAt # NoTime) <=> (payments[p].status = "COMPLETED")
              /\ ~(payments[p].completedAt # NoTime /\ payments[p].failedAt # NoTime))
    /\ [][\A p \in PaymentIds :
             /\ payments[p].completedAt # NoTime => payments'[p].completedAt = payments[p].completedAt
             /\ payments[p].failedAt # NoTime => payments'[p].failedAt = payments[p].failedAt]_vars

\* The rows a query may take
Queryable == { e \in outbox : ~e.published /\ e.retryCount < MAX_RETRIES }

\* C23: the batch select. The list the relay reads holds only rows that are
\* unpublished with retryCount < MAX_RETRIES, each once, at most BATCH_SIZE of
\* them and all of them when they are fewer, in ascending order of createdAt,
\* and no eligible row left out is older than a row taken.
C23_BatchSelection ==
    out.kind = "rows" =>
        /\ \A i \in 1..Len(out.rows) :
              /\ out.rows[i] \in Queryable
              /\ out.rows[i].retryCount < MAX_RETRIES /\ ~out.rows[i].published
        /\ Len(out.rows) <= BATCH_SIZE
        /\ Len(out.rows) = Min(BATCH_SIZE, Cardinality(Queryable))
        /\ \A i, j \in 1..Len(out.rows) :
              i < j => /\ out.rows[i].createdAt <= out.rows[j].createdAt
                       /\ out.rows[i].id # out.rows[j].id
        /\ \A e \in Queryable :
              (\A i \in 1..Len(out.rows) : out.rows[i] # e) =>
                  \A i \in 1..Len(out.rows) : out.rows[i].createdAt <= e.createdAt

C23_Witness ==
    /\ out.kind = "rows" /\ Len(out.rows) = BATCH_SIZE
    /\ Cardinality(Queryable) > BATCH_SIZE
    /\ \E e \in outbox :
          /\ ~e.published /\ e.retryCount >= MAX_RETRIES
          /\ e.createdAt < out.rows[Len(out.rows)].createdAt
    /\ \E e \in outbox : e.published /\ e.createdAt < out.rows[Len(out.rows)].createdAt

\* ------------------------------------------------------------------ C24
\* C24: the outcome of one publish attempt on its entry. When the send has
\* resolved, the step that settles the attempt sets published and sets
\* publishedAt to the clock and changes nothing else of the row, the retry
\* count included. When the send has rejected, the step that settles the
\* attempt leaves the row unpublished, adds exactly one to its retry count and
\* stores the first 500 characters of the error's message, and nothing else
\* of the row changes.
Prefix(text, n) == [i \in 1..(IF Len(text) < n THEN Len(text) ELSE n) |-> text[i]]

Unmapped(e) == e.eventType \notin {"PAYMENT_COMPLETED", "PAYMENT_FAILED"}

\* C25: an entry whose event type has no topic is never sent and never
\* published; its retry count stays within MAX_RETRIES, a counted attempt
\* leaves "Unknown event type" as its error, and with MAX_RETRIES attempts
\* counted it is in the stuck set and no longer eligible. A pass that selected
\* it returns with its count exactly one higher than when it was selected and
\* with its promise fulfilled: the failures the pass reports are those of the
\* other entries alone.
C25_UnmappedState ==
    \A e \in outbox : Unmapped(e) =>
        /\ sent[e.id] = 0
        /\ ~e.published /\ e.publishedAt = NoTime
        /\ e.retryCount <= MAX_RETRIES
        /\ e.retryCount > 0 => e.lastError = UnknownTypeText
        /\ e.retryCount = MAX_RETRIES => e \in Stuck(outbox) /\ e \notin Eligible(outbox)
        /\ \A r \in Relays : \A t \in relay[r].batch :
              t.id = e.id => /\ t.stage \in {"start", "fulfilled"}
                             /\ t.stage = "start" => e.retryCount = t.retryCount
                             /\ t.stage = "fulfilled" => e.retryCount = t.retryCount + 1

C25_UnmappedPass ==
    [][\A r \in Relays :
          (relay[r].pc = "publish" /\ relay'[r].pc = "idle") =>
             /\ out'.kind = "relay" /\ out'.result = "returned"
             /\ \A t \in relay[r].batch : Unmapped(t) =>
                   /\ Exists(t.id) /\ t.stage = "fulfilled"
                   /\ Row(t.id).retryCount = t.retryCount + 1
                   /\ ~Row(t.id).published
             /\ out'.failed = Cardinality({ t \in relay[r].batch :
                                   ~Unmapped(t) /\ t.stage = "rejected" })
             /\ \A t \in relay[r].batch : ~Unmapped(t) =>
                   \/ t.stage = "fulfilled" /\ sent[t.id] > 0
                   \/ t.stage = "rejected"]_vars

C25_UnmappedEntry == []C25_UnmappedState /\ C25_UnmappedPass

\* The fifth pass over an unmapped entry has just returned; the entry is
\* stuck, and the mapped entry selected with it was published by that pass
C25_Witness ==
    /\ out.kind = "relay" /\ out.succeeded = 2 /\ out.failed = 0
    /\ \E e \in outbox :
          /\ Unmapped(e) /\ e.retryCount = MAX_RETRIES /\ e \in Stuck(outbox)
          /\ e.lastError = UnknownTypeText
    /\ \E e \in outbox : ~Unmapped(e) /\ e.published /\ e.retryCount = 0
    /\ \A e \in outbox : ~Unmapped(e) => e.published

\* ------------------------------------------------------------------ C26
RowIds(table) == { e.id : e \in table }

InBatch(r, i) == \E t \in relay[r].batch : t.id = i

\* C26: a step of a relay invocation inserts no row and deletes none, leaves
\* the Payment rows alone and changes no row outside its batch; within the
\* batch it changes a row at most once. A pass none of whose sends resolved
\* returns with every selected row unpublished and its retry count exactly
\* one above the count it was selected with.
C26_RelayFrame ==
    [][\A r \in Relays :
          /\ relay'[r] # relay[r] =>
                /\ RowIds(outbox') = RowIds(outbox)
                /\ nextId' = nextId /\ inserts' = inserts
                /\ payments' = payments /\ updates' = updates
                /\ \A e \in outbox : ~InBatch(r, e.id) => e \in outbox'
                /\ \A t \in relay[r].batch :
                      (Exists(t.id) /\ Row(t.id) \notin outbox') =>
                          /\ t.stage \in {"start", "sent", "caught"}
                          /\ TaskAt(r, t.id, {"fulfilled", "rejected"})'
          /\ (relay[r].pc = "publish" /\ relay'[r].pc = "idle"
                /\ \A t \in relay[r].batch : sent[t.id] = 0 \/ t.stage = "rejected") =>
                /\ out'.kind = "relay" /\ out'.result = "returned"
                /\ \A t \in relay[r].batch :
                      /\ Exists(t.id)
                      /\ Row(t.id).retryCount = t.retryCount + 1
                      /\ ~Row(t.id).published]_vars

\* A pass over two queued entries has just returned with both sends
\* rejected: both rows are there, unpublished, counted once, nothing sent
C26_Witness ==
    /\ out.kind = "relay" /\ out.failed = 2 /\ out.succeeded = 0
    /\ Cardinality(outbox) = 2 /\ RowIds(outbox) = {1, 2}
    /\ \A e \in outbox : ~e.published /\ e.retryCount = 1 /\ e.lastError = Failure.message
    /\ \A i \in Ids : sent[i] = 0

\* ------------------------------------------------------------------ C27
\* C27: an invocation whose connect fails, or whose findMany fails, ends by
\* throwing, and while it ran no row changed and nothing was sent. A relay
\* step changes a row or sends a message only when the select of its
\* invocation has returned: the batch is fixed by then and the row is in it.
C27_StartupFailure ==
    [][\A r \in Relays :
          /\ (relay[r].producer = "null" /\ relay'[r].producer = "created") =>
                /\ out' = [kind |-> "relay", result |-> "thrown"]
                /\ relay[r].pc = "idle" /\ relay'[r].pc = "idle"
          /\ (relay[r].pc = "select" /\ relay'[r].pc = "idle" /\ Queryable # {}) =>
                out' = [kind |-> "relay", result |-> "thrown"]
          /\ (relay'[r] # relay[r] /\ out'.kind = "relay" /\ out'.result = "thrown") =>
                /\ relay[r].batch = {} /\ relay'[r].batch = {}
                /\ relay[r].pc \in {"idle", "select"} /\ relay'[r].pc = "idle"
          /\ (relay'[r] # relay[r] /\ relay[r].pc \in {"idle", "select"}) =>
                /\ outbox' = outbox /\ sent' = sent /\ payments' = payments
          /\ (relay'[r] # relay[r] /\ (outbox' # outbox \/ sent' # sent)) =>
                /\ relay[r].pc = "publish" /\ relay'[r].pc = "publish"
                /\ { t.id : t \in relay'[r].batch } = { t.id : t \in relay[r].batch }
                /\ \A e \in outbox : e \notin outbox' => InBatch(r, e.id)
                /\ \A i \in Ids : sent'[i] # sent[i] => InBatch(r, i)]_vars

\* The read of the batch has just failed with an entry queued: the
\* invocation threw, the entry is as the intake wrote it, nothing was sent
C27_Witness ==
    /\ out = [kind |-> "relay", result |-> "thrown"]
    /\ \E r \in Relays : relay[r].pc = "idle" /\ relay[r].producer = "connected"
    /\ \E e \in outbox : ~Unmapped(e) /\ ~e.published /\ e.retryCount = 0 /\ e.lastError = NoError
    /\ \A i \in Ids : sent[i] = 0

\* ------------------------------------------------------------------ C28
\* C28: the status code of every webhook reply. 400 is answered exactly to
\* the requests whose path names no provider. A request whose body does not
\* parse is answered 500; a 500 carries the error body and leaves the Payment
\* and outbox tables as they were. Every other reply is 200 with the response
\* of the verifier as its body.
C28_ResponseCodes ==
    [][\A c \in Callbacks :
          (out'.kind = "http" /\ out'.request = c) =>
             /\ out'.statusCode \in {200, 400, 500}
             /\ out'.statusCode = 400 <=> ~NamesProvider(c)
             /\ ~Parses(c) => out'.statusCode = 500
             /\ out'.statusCode = 500 =>
                   /\ out'.body = Stringify("error:Internal server error")
                   /\ payments' = payments /\ outbox' = outbox
             /\ out'.statusCode = 400 =>
                   /\ out'.body = Stringify("error:Unknown payment provider")
                   /\ payments' = payments /\ outbox' = outbox
             /\ out'.statusCode = 200 =>
                   /\ Parses(c) /\ NamesProvider(c)
                   /\ out'.body = Stringify(Verdict(c).response)]_vars

\* ------------------------------------------------------------------ C29
\* C29: a webhook invocation sends nothing to the broker and leaves the
\* relay alone; every outbox row there was is still there, unchanged; at most
\* one row is new, with an id no row had, and only a reply of 200 comes with
\* a new row.
C29_IntakeFrame ==
    [][out'.kind = "http" =>
          /\ sent' = sent /\ relay' = relay
          /\ outbox \subseteq outbox'
          /\ Cardinality(outbox' \ outbox) <= 1
          /\ \A e \in outbox' \ outbox :
                /\ e.id \notin RowIds(outbox)
                /\ out'.statusCode = 200
                /\ Cardinality(outbox') = Cardinality(outbox) + 1]_vars

\* A second accepted callback for the Payment: its row is added next to the
\* row of the first
C29_Witness ==
    /\ out.kind = "http" /\ out.statusCode = 200
    /\ Cardinality(outbox) = 2
    /\ \A e \in outbox : e.aggregateType = "Payment" /\ ~e.published /\ e.retryCount = 0
    /\ \A i \in Ids : sent[i] = 0
    /\ \E p \in PaymentIds : inserts[p] = 2

\* ------------------------------------------------------------------ C30
\* C30: the aggregate id, the event type and the payload of an outbox row
\* never change while the row exists, and every message the broker receives
\* for an entry has the entry's aggregate id as key and as correlationId, the
\* entry's event type as eventType header, the topic of that type, and the
\* entry's payload, stringified, as value: whatever the Payment row holds when
\* the message is sent.
C30_SnapshotPublished ==
    [][/\ \A e \in outbox : \A f \in outbox' :
             f.id = e.id => /\ f.aggregateId = e.aggregateId
                            /\ f.eventType = e.eventType
                            /\ f.payload = e.payload
       /\ \A r \in Relays : \A t \in relay[r].batch :
             (t.stage = "start" /\ TaskAt(r, t.id, {"sent"})') =>
                /\ Exists(t.id)
                /\ out'.kind = "send"
                /\ out'.message.key = Row(t.id).aggregateId
                /\ out'.message.headers.correlationId = Row(t.id).aggregateId
                /\ out'.message.headers.eventType = Row(t.id).eventType
                /\ out'.message.value = <<"json", Row(t.id).payload>>
                /\ out'.message.value[2].payment_id = Row(t.id).aggregateId
                /\ out'.message.value[2].at = Row(t.id).createdAt
                /\ out'.message.topic =
                      (IF Row(t.id).eventType = "PAYMENT_COMPLETED"
                       THEN "payment.completed" ELSE "payment.failed")
       /\ out'.kind = "send" =>
             \E r \in Relays : \E t \in relay[r].batch :
                t.stage = "start" /\ TaskAt(r, t.id, {"sent"})']_vars

\* The message of a PAYMENT_COMPLETED entry created at time 0 has just been
\* sent, after a later callback moved the Payment row to FAILED
C30_Witness ==
    /\ out.kind = "send" /\ now > 0
    /\ out.message.headers.eventType = "PAYMENT_COMPLETED"
    /\ out.message.value[2].at = 0
    /\ \E p \in PaymentIds :
          /\ out.message.key = p
          /\ payments[p].status = "FAILED" /\ payments[p].failedAt = now

\* ------------------------------------------------------------------ C31
\* C31: any two send attempts, those of one entry in different passes
\* included, carry different messageId headers.
C31_FreshMessageId ==
    \A i, j \in 1..Len(attempts.log) :
        i # j => attempts.log[i].message.headers.messageId
                 # attempts.log[j].message.headers.messageId

\* An entry sent in a second pass after its first send was rejected, and
\* another entry attempted between the two
C31_Witness ==
    /\ Len(attempts.log) = 3
    /\ attempts.log[1].entry = attempts.log[3].entry
    /\ attempts.log[2].entry # attempts.log[1].entry
    /\ \E e \in outbox :
          e.id = attempts.log[1].entry /\ e.retryCount = 1 /\ sent[e.id] = 1

\* ------------------------------------------------------------------ C32
FirstUnderscore(s) == CHOOSE i \in 1..Len(s) : s[i] = "_" /\ \A j \in 1..(i - 1) : s[j] # "_"

AfterFirstUnderscore(s) ==
    IF \E i \in 1..Len(s) : s[i] = "_"
    THEN [k \in 1..(Len(s) - FirstUnderscore(s)) |-> s[FirstUnderscore(s) + k]]
    ELSE s

\* C32: the order code of an authentic ZaloPay callback is what follows the
\* first underscore of app_trans_id when there is one, and the whole value
\* otherwise.
C32_OrderCodeAfterUnderscore ==
    (out.kind = "verified" /\ out.request[1] = "zalopay") =>
        out.result.orderCode = AfterFirstUnderscore(out.request[2].data.id)

\* ------------------------------------------------------------------ C33
\* C33: the canonical string of a PayOS data document is the same for every
\* ordering of its keys, and so is the result of the verifier for a given
\* signature.
C33_CanonicalOrderIndependent ==
    (out.kind = "verified" /\ out.request[1] = "payos") =>
        LET body == out.request[2]
            same == { d \in Documents :
                        { d[i] : i \in 1..Len(d) } = { body.data[i] : i \in 1..Len(body.data) } }
        IN  \A d \in same :
               /\ Canonical(d) = Canonical(body.data)
               /\ verifyPayOSCallback([body EXCEPT !.data = d]) = out.result

\* A document of three keys, given in an order that is not the sorted one,
\* has been accepted under the signature of the sorted one
C33_Witness ==
    /\ out.kind = "verified" /\ out.request[1] = "payos"
    /\ Len(out.request[2].data) = 3
    /\ out.request[2].data[1][1] = "orderCode" /\ out.request[2].data[3][1] = "amount"
    /\ out.result.success /\ out.result.orderCode = <<"A">>

\* ------------------------------------------------------------------ C34
\* C34: when the send of an entry has resolved and the mark-published update
\* throws, the row is not touched by that throw, and the catch block then
\* leaves it unpublished with its retry count one higher and the error
\* stored; the row stays eligible for the next pass while its count is below
\* MAX_RETRIES and is in the stuck set once the count has reached it.
C34_MarkFailure ==
    [][\A r \in Relays : \A t \in relay[r].batch :
          /\ (t.stage = "sent" /\ TaskAt(r, t.id, {"caught"})') =>
                /\ sent[t.id] > 0
                /\ outbox' = outbox
          /\ (t.stage = "caught" /\ sent[t.id] > 0 /\ Exists(t.id)
                /\ TaskAt(r, t.id, {"rejected"})' /\ outbox' # outbox) =>
                LET before == Row(t.id)
                    after == CHOOSE e \in outbox' : e.id = t.id
                IN  /\ ~after.published /\ after.publishedAt = NoTime
                    /\ after.retryCount = before.retryCount + 1
                    /\ after.lastError # NoError
                    /\ after.lastError = t.error.message
                    /\ after.retryCount < MAX_RETRIES <=> after \in Eligible(outbox')
                    /\ after.retryCount >= MAX_RETRIES <=> after \in Stuck(outbox')]_vars

\* An entry the broker accepted twice, in two passes, is in the stuck set
C34_Witness ==
    \E e \in outbox :
        /\ sent[e.id] = 2 /\ e \in Stuck(outbox)
        /\ ~e.published /\ e.retryCount = MAX_RETRIES /\ e.lastError = Failure.message

\* ------------------------------------------------------------------ C35
\* C35: an invocation that has passed the producer set-up, and selects or
\* publishes, holds a producer whose connect() completed.
C35_ProducerConnected ==
    \A r \in Relays :
        relay[r].pc \in {"select", "publish"} => relay[r].producer = "connected"

\* ------------------------------------------------------------------ C36
AttemptsOf(i) == Cardinality({ k \in 1..Len(attempts.log) : attempts.log[k].entry = i })

\* C36: with one relay invocation at a time, the retry count of every entry
\* lies between 0 and MAX_RETRIES, and no entry has been handed to
\* producer.send more than MAX_RETRIES times.
C36_RetryBounds ==
    \A e \in outbox :
        /\ 0 <= e.retryCount /\ e.retryCount <= 5
        /\ AttemptsOf(e.id) <= 5

\* ------------------------------------------------------------------ C37
\* C37: a sweeper invocation that throws has reported no stuck set and sent
\* no metrics. When it threw before any row was counted as deleted the table
\* is as it was; when it threw after the delete, the rows the delete removed
\* stay removed and every other row is as it was.
C37_SweepFailure ==
    [][(out'.kind = "sweep" /\ out'.result = "thrown") =>
          /\ out'.metrics = <<>> /\ out'.stuck = {}
          /\ payments' = payments /\ sent' = sent /\ relay' = relay
          /\ out'.deleted = 0 - 1 => outbox' = outbox
          /\ out'.deleted # 0 - 1 =>
                /\ outbox' = { e \in outbox :
                                ~(e.published /\ e.publishedAt < now - RETENTION_DAYS) }
                /\ out'.deleted = Cardinality(outbox) - Cardinality(outbox')]_vars

\* The stuck query has just thrown after a delete that removed a row
C37_Witness ==
    /\ out.kind = "sweep" /\ out.result = "thrown" /\ out.deleted = 1
    /\ out.metrics = <<>>
    /\ \E i \in Ids : i < nextId /\ \A e \in outbox : e.id # i

\* ------------------------------------------------------------------ C38
\* C38: when an invocation of email-sender or pdf-generator ends, every
\* record of its batch has been attempted, whatever became of the others; it
\* throws exactly when a record was rejected; after a throw every record of
\* the batch, the fulfilled ones included, is still on the queue, and after a
\* return none of them is.
C38_BatchAllOrNothing ==
    [][\A h \in Handlers :
          (sqs[h].pc = "running" /\ sqs'[h].pc = "idle") =>
             /\ out'.kind = "consumer" /\ out'.handler = h
             /\ \A t \in sqs[h].batch : t.stage \in {"fulfilled", "rejected"}
             /\ out'.result = "thrown" <=> \E t \in sqs[h].batch : t.stage = "rejected"
             /\ out'.result = "returned" <=> \A t \in sqs[h].batch : t.stage = "fulfilled"
             /\ out'.result = "thrown" =>
                   /\ sqs'[h].queue = sqs[h].queue
                   /\ \A t \in sqs[h].batch : t.n \in sqs'[h].queue
             /\ out'.result = "returned" =>
                   sqs'[h].queue = sqs[h].queue \ { t.n : t \in sqs[h].batch }]_vars

\* A record processed twice: the batch of its first delivery threw for the
\* other record, the batch of the second returned
C38_Witness ==
    /\ out.kind = "consumer" /\ out.result = "returned" /\ out.records = Records
    /\ \E h \in Handlers :
          /\ out.handler = h /\ sqs[h].queue = {}
          /\ \E n, k \in Records : sqs[h].done[n] = 2 /\ sqs[h].done[k] = 1
====
